---- MODULE Spec2Model ----
(***************************************************************************)
(* Streaming chat pipeline of properties.ai:                               *)
(*   Transport          streamChatMessage   frontend/src/lib/api.ts        *)
(*   Session Controller ChatPage            frontend/src/app/chat/page.tsx *)
(*                                                                         *)
(* A JavaScript string is a sequence of one-character strings; a literal   *)
(* of the program that no operation takes apart (the greeting, the         *)
(* apology, the two fixed error messages) is held as one unit of such a    *)
(* sequence.  The value `undefined` is the one-element sequence Undefined, *)
(* which is no string.                                                     *)
(* React state is held twice: the committed state (messages, isLoading,    *)
(* ...) and `view`, the values captured by the closures of the last        *)
(* render, which is what the event handlers read.  Every step ends with    *)
(* the render of its updates.  A command handled between a callback of the *)
(* Transport and the render of that callback's updates still reads         *)
(* isLoading = true and returns at once; it changes nothing, so that       *)
(* interleaving adds no state and the render is part of the callback's     *)
(* step.                                                                   *)
(*                                                                         *)
(* The same actions run under several environments: Spec (chunks made of   *)
(* whole records, every kind of response and failure), SpecText (two       *)
(* different texts, error texts that name a correlation id), SpecLive      *)
(* (SpecText with a network that does not hang), SpecCuts (chunks cut      *)
(* anywhere in the byte stream), SpecDot (correlation ids holding a dot)   *)
(* and SpecBurst (two submit events handled by the handler of one render). *)
(* SpecApi runs the non-streaming helper of api.ts.                        *)
(***************************************************************************)
EXTENDS Integers, Sequences, FiniteSets, TLC

(* ------------------------------ bounds -------------------------------- *)
\* Transport invocations started during one life of the view.
MaxCalls == 2
\* Byte chunks the network delivers during one life of the view.
MaxChunks == 2

(* ------------------------------ strings ------------------------------- *)
Undefined == <<"undefined">>

GREETING == <<"Hello! I'm your AI Real Estate Assistant. How can I help you find your dream property today?">>

APOLOGY == <<"I apologize, but I encountered an error. Please try again.">>

FAILED_TO_START == <<"Failed to start stream">>

UNKNOWN_ERROR == <<"Unknown error">>

DATA_PREFIX == <<"d", "a", "t", "a", ":", " ">>

DONE_SENTINEL == <<"[", "D", "O", "N", "E", "]">>

FRAME_DELIM == <<"\n", "\n">>

REQUEST_ID_KEY == <<"r", "e", "q", "u", "e", "s", "t", "_", "i", "d", "=">>

\* JavaScript truthiness of a value of type string | undefined.
Truthy(s) == s # Undefined /\ s # <<>>

\* a || b and a ?? b on string | undefined.
OrElse(a, b) == IF Truthy(a) THEN a ELSE b

Coalesce(a, b) == IF a # Undefined THEN a ELSE b

WhiteSpace == {" ", "\t", "\n", "\r"}

RECURSIVE TrimStart(_)
TrimStart(s) ==
  IF s # <<>> /\ Head(s) \in WhiteSpace THEN TrimStart(Tail(s)) ELSE s

RECURSIVE TrimEnd(_)
TrimEnd(s) ==
  IF s # <<>> /\ s[Len(s)] \in WhiteSpace
  THEN TrimEnd(SubSeq(s, 1, Len(s) - 1))
  ELSE s

\* String.prototype.trim
Trim(s) == TrimEnd(TrimStart(s))

\* s.startsWith(p)
StartsWith(s, p) == Len(s) >= Len(p) /\ SubSeq(s, 1, Len(p)) = p

\* s.slice(n)
Slice(s, n) == SubSeq(s, n + 1, Len(s))

\* Index of the first occurrence of p in s at or after position 1, 0 if none.
IndexOf(s, p) ==
  LET hits == {i \in 1..(Len(s) - Len(p) + 1) : SubSeq(s, i, i + Len(p) - 1) = p}
  IN  IF hits = {} THEN 0 ELSE CHOOSE i \in hits : \A j \in hits : i <= j

\* s.split(d) for a non-empty delimiter d.
RECURSIVE Split(_, _)
Split(s, d) ==
  LET i == IndexOf(s, d)
  IN  IF i = 0
      THEN <<s>>
      ELSE <<SubSeq(s, 1, i - 1)>> \o Split(SubSeq(s, i + Len(d), Len(s)), d)

\* Concatenation of a sequence of strings.
RECURSIVE Concat(_)
Concat(ss) == IF ss = <<>> THEN <<>> ELSE Head(ss) \o Concat(Tail(ss))

(* ------------------------------ state --------------------------------- *)
VARIABLES
  messages,         \* useState<Message[]>        page.tsx:16
  input,            \* useState("")               page.tsx:19
  isLoading,        \* useState(false)            page.tsx:20
  sessionId,        \* useState<string|undefined> page.tsx:21
  requestId,        \* useState<string|undefined> page.tsx:22
  lastUserMessage,  \* useState<string|undefined> page.tsx:23
  errorMessage,     \* useState<string|undefined> page.tsx:24
  view,             \* state captured by the handlers of the last render
  calls,            \* Transport invocations, in the order they were started
  hasCrypto,        \* crypto.randomUUID exists in this environment
  uuids,            \* number of crypto.randomUUID() calls made so far
  reads,            \* number of chunks reader.read() has returned so far
  unhandled,        \* a rejection escaped the controller
  failure           \* what the latest attempt's promise was rejected with

vars == <<messages, input, isLoading, sessionId, requestId, lastUserMessage,
          errorMessage, view, calls, hasCrypto, uuids, reads, unhandled,
          failure>>

\* What a render captures for the handlers it creates.
Snapshot(in, ld, sid, lum, em) ==
  [input |-> in, isLoading |-> ld, sessionId |-> sid,
   lastUserMessage |-> lum, errorMessage |-> em]

Init ==
  /\ messages = << [role |-> "assistant", content |-> GREETING] >>
  /\ input = <<>>
  /\ isLoading = FALSE
  /\ sessionId = Undefined
  /\ requestId = Undefined
  /\ lastUserMessage = Undefined
  /\ errorMessage = Undefined
  /\ view = Snapshot(<<>>, FALSE, Undefined, Undefined, Undefined)
  /\ calls = <<>>
  /\ hasCrypto \in BOOLEAN
  /\ uuids = 0
  /\ reads = 0
  /\ unhandled = FALSE
  /\ failure = [isError |-> FALSE, message |-> <<"none">>]

(* ------------------- Session Controller: pure parts -------------------- *)
Uuid(n) == <<"u", "u", "i", "d", "-">> \o <<ToString(n)>>

UPPER == <<"A", "B", "C", "D", "E", "F", "G", "H", "I", "J", "K", "L", "M", "N", "O", "P", "Q", "R", "S", "T", "U", "V", "W", "X", "Y", "Z">>

LOWER == <<"a", "b", "c", "d", "e", "f", "g", "h", "i", "j", "k", "l", "m", "n", "o", "p", "q", "r", "s", "t", "u", "v", "w", "x", "y", "z">>

DIGITS == {"0", "1", "2", "3", "4", "5", "6", "7", "8", "9"}

\* Case folding of the regular expression's i flag.
Lower(c) ==
  IF \E k \in 1..26 : UPPER[k] = c
  THEN LOWER[CHOOSE k \in 1..26 : UPPER[k] = c]
  ELSE c

LowerStr(s) == [k \in 1..Len(s) |-> Lower(s[k])]

\* The character class [A-Za-z0-9_-]
IdChars == {UPPER[k] : k \in 1..26} \cup {LOWER[k] : k \in 1..26} \cup DIGITS \cup {"_", "-"}

\* Longest prefix of s made of characters of the class.
RECURSIVE IdRun(_)
IdRun(s) ==
  IF s # <<>> /\ Head(s) \in IdChars THEN <<Head(s)>> \o IdRun(Tail(s)) ELSE <<>>

\* message.match(/request_id=([A-Za-z0-9_-]+)/i): the capture of the leftmost
\* match, Undefined when there is no match.
MatchRequestId(message) ==
  LET n == Len(REQUEST_ID_KEY)
      hits == {k \in 1..(Len(message) - n) :
                 /\ LowerStr(SubSeq(message, k, k + n - 1)) = REQUEST_ID_KEY
                 /\ message[k + n] \in IdChars}
  IN  IF hits = {}
      THEN Undefined
      ELSE LET k == CHOOSE h \in hits : \A j \in hits : h <= j
           IN  IdRun(SubSeq(message, k + n, Len(message)))

\* A value a promise can be rejected with: an Error carrying a message, or
\* something that is not an Error.
ErrorOf(m) == [isError |-> TRUE, message |-> m]

NonError == [isError |-> FALSE, message |-> Undefined]

\* The latest attempt has not been rejected.
NoFailure == [isError |-> FALSE, message |-> <<"none">>]

\* error instanceof Error ? error.message : "Unknown error"
ErrorText(error) == IF error.isError THEN error.message ELSE UNKNOWN_ERROR

\* Variant: the fragment is put in front of the content.
AppendChunk_Prepend(prev, chunk) ==
  LET lastIdx == Len(prev)
  IN  IF lastIdx >= 1 /\ prev[lastIdx].role = "assistant"
      THEN [prev EXCEPT ![lastIdx].content = chunk \o @]
      ELSE prev

\* Variant: the fragment is added to every assistant entry.
AppendChunk_EveryAssistant(prev, chunk) ==
  [k \in 1..Len(prev) |->
     IF prev[k].role = "assistant"
     THEN [prev[k] EXCEPT !.content = @ \o chunk]
     ELSE prev[k]]

\* The setMessages updater of the onChunk callback.
AppendChunk(prev, chunk) ==
  LET lastIdx == Len(prev)
  IN  IF lastIdx >= 1 /\ prev[lastIdx].role = "assistant"
      THEN [prev EXCEPT ![lastIdx].content = @ \o chunk]
      ELSE prev

\* onChunk applied to every fragment of one decode cycle, in order.
RECURSIVE AppendChunks(_, _)
AppendChunks(prev, frags) ==
  IF frags = <<>> THEN prev
  ELSE AppendChunks(AppendChunk(prev, Head(frags)), Tail(frags))

\* Variant: the trailing assistant entry is overwritten whatever it holds.
ApologyUpdate_Overwrite(prev) ==
  LET lastIdx == Len(prev)
  IN  IF lastIdx >= 1 /\ prev[lastIdx].role = "assistant"
      THEN [prev EXCEPT ![lastIdx].content = APOLOGY]
      ELSE Append(prev, [role |-> "assistant", content |-> APOLOGY])

\* Variant: the apology is written only into an empty trailing entry.
ApologyUpdate_EmptyOnly(prev) ==
  LET lastIdx == Len(prev)
  IN  IF lastIdx >= 1 /\ prev[lastIdx].role = "assistant" /\ ~Truthy(prev[lastIdx].content)
      THEN [prev EXCEPT ![lastIdx].content = APOLOGY]
      ELSE prev

\* Variant: the apology is always a new entry.
ApologyUpdate_Append(prev) ==
  Append(prev, [role |-> "assistant", content |-> APOLOGY])

\* The setMessages updater of applyStreamError.
ApologyUpdate(prev) ==
  LET lastIdx == Len(prev)
  IN  IF lastIdx >= 1 /\ prev[lastIdx].role = "assistant" /\ ~Truthy(prev[lastIdx].content)
      THEN [prev EXCEPT ![lastIdx].content = APOLOGY]
      ELSE Append(prev, [role |-> "assistant", content |-> APOLOGY])

\* Variant: an error text that names no id clears the retained id.
ErrorRequestId_Reset(prevId, message) == MatchRequestId(message)

\* Variant: the error text is not searched for an id.
ErrorRequestId_Keep(prevId, message) == prevId

\* setRequestId of applyStreamError: only when the pattern matches.
ErrorRequestId(prevId, message) ==
  LET m == MatchRequestId(message)
  IN  IF Truthy(m) THEN m ELSE prevId

\* The onStart callback: if (requestId) setRequestId(requestId).
OnStartRequestId(prevId, rid) == IF Truthy(rid) THEN rid ELSE prevId

\* Variant: the text is used as typed.
UserMessage_Untrimmed(v) == v.input

\* const userMessage = input.trim();
UserMessage(v) == Trim(v.input)

\* Variant: the text is not consulted.
SubmitRejects_IgnoresBlank(v) == v.isLoading

\* Variant: the busy flag is not consulted.
SubmitRejects_IgnoresBusy(v) == ~Truthy(Trim(v.input))

\* if (!input.trim() || isLoading) return;
SubmitRejects(v) == ~Truthy(Trim(v.input)) \/ v.isLoading

\* Variant: the Retry button is rendered without an error notice.
RetryOffered_Always(v) == TRUE

\* {errorMessage && (... <button>Retry</button> ...)}
RetryOffered(v) == Truthy(v.errorMessage)

\* if (!lastUserMessage || isLoading) return;
RetryRejects(v) == ~Truthy(v.lastUserMessage) \/ v.isLoading

\* {errorMessage && (... {requestId ? `request_id=${requestId}` : ""} ...)}:
\* the correlation id the page shows, Undefined when it shows none.
ShownRequestId ==
  IF Truthy(errorMessage) /\ Truthy(requestId) THEN requestId ELSE Undefined

\* Variant: every send draws a new identity.
SubmitSid_Fresh(v) == IF hasCrypto THEN Uuid(uuids + 1) ELSE Undefined

\* sessionId ?? (crypto has randomUUID ? crypto.randomUUID() : undefined)
SubmitSid(v) ==
  Coalesce(v.sessionId, IF hasCrypto THEN Uuid(uuids + 1) ELSE Undefined)

\* Variant: the retry resubmits what is in the input field.
RetryMessage_FromInput(v) == v.input

\* { message: lastUserMessage, ... }
RetryMessage(v) == v.lastUserMessage

\* Variant: the retry sends no session identity.
RetrySid_Unset(v) == Undefined

\* { ..., session_id: sessionId }
RetrySid(v) == v.sessionId

\* Variant: the Retry onClick has no .catch(...).
Catches_SendOnly(kind) == kind = "send"

\* The failure handler each command attaches: try/catch in handleSubmit,
\* .catch(...) in the Retry onClick.
Catches(kind) == kind \in {"send", "retry"}

(* ----------------------------- Transport ------------------------------- *)
\* One invocation of streamChatMessage.  pc is its suspension point:
\*   "fetch" awaiting fetch(), "read" awaiting reader.read(),
\*   "resolved" / "rejected" once its promise has settled.
\* raw and slot record what the invocation was given; starts and delivered
\* are the arguments of its onStart and onChunk calls, in call order; wire is
\* the bytes reader.read() has returned to it; outcome is how it ended.
NewCall(kind, message, sid, raw, slot) ==
  [kind |-> kind, message |-> message, session_id |-> sid, pc |-> "fetch",
   raw |-> raw, slot |-> slot, starts |-> <<>>, delivered |-> <<>>,
   wire |-> <<>>, outcome |-> "none"]

InFlight == {i \in 1..Len(calls) : calls[i].pc \in {"fetch", "read"}}

\* new TextDecoder().decode(value): every call decodes its chunk on its own;
\* a multi-byte character (bytes C3 A9, U+00E9) that is not whole inside the
\* chunk becomes U+FFFD.
RECURSIVE Decode(_)
Decode(b) ==
  IF b = <<>> THEN <<>>
  ELSE IF Head(b) = "C3"
       THEN IF Len(b) >= 2 /\ b[2] = "A9"
            THEN <<"U+00E9">> \o Decode(SubSeq(b, 3, Len(b)))
            ELSE <<"U+FFFD">> \o Decode(Tail(b))
       ELSE IF Head(b) = "A9"
            THEN <<"U+FFFD">> \o Decode(Tail(b))
            ELSE <<Head(b)>> \o Decode(Tail(b))

\* Variant: the sentinel is noted but the loop goes on to the lines after it.
RECURSIVE ScanLines_PastSentinel(_)
ScanLines_PastSentinel(lines) ==
  IF lines = <<>> THEN [frags |-> <<>>, done |-> FALSE]
  ELSE LET line == Head(lines)
           rest == ScanLines_PastSentinel(Tail(lines))
       IN  IF StartsWith(line, DATA_PREFIX)
           THEN LET data == Slice(line, 6)
                IN  IF data = DONE_SENTINEL
                    THEN [frags |-> rest.frags, done |-> TRUE]
                    ELSE [frags |-> <<data>> \o rest.frags, done |-> rest.done]
           ELSE rest

\* The for loop over the lines of one chunk: the payloads handed to onChunk,
\* and whether the loop returned on the sentinel.
RECURSIVE ScanLines(_)
ScanLines(lines) ==
  IF lines = <<>> THEN [frags |-> <<>>, done |-> FALSE]
  ELSE LET line == Head(lines)
       IN  IF StartsWith(line, DATA_PREFIX)
           THEN LET data == Slice(line, 6)
                IN  IF data = DONE_SENTINEL
                    THEN [frags |-> <<>>, done |-> TRUE]
                    ELSE LET rest == ScanLines(Tail(lines))
                         IN  [frags |-> <<data>> \o rest.frags, done |-> rest.done]
           ELSE ScanLines(Tail(lines))

\* One pass of the while loop for a chunk that was read.
ProcessChunk(value) == ScanLines(Split(Decode(value), FRAME_DELIM))

\* Variant: onStart is called without the header's value.
StartArg_Absent(resp) == Undefined

\* const requestId = response.headers.get("X-Request-ID") || undefined;
StartArg(resp) == OrElse(resp.rid, Undefined)

\* Variant: the request_id clause is written whether or not there is an id.
StartError_AlwaysId(resp) ==
  LET errorText == resp.text
      rid == OrElse(resp.rid, Undefined)
      message == OrElse(errorText, FAILED_TO_START)
  IN  ErrorOf(message \o <<" ", "(">> \o REQUEST_ID_KEY \o rid \o <<")">>)

\* Variant: there is no fixed text for a response without text.
StartError_NoFallback(resp) ==
  LET errorText == resp.text
      rid == OrElse(resp.rid, Undefined)
      composed == IF Truthy(rid)
                  THEN errorText \o <<" ", "(">> \o REQUEST_ID_KEY \o rid \o <<")">>
                  ELSE errorText
  IN  ErrorOf(composed)

\* The error thrown when the response is not ok or has no body.
StartError(resp) ==
  LET errorText == resp.text
      rid == OrElse(resp.rid, Undefined)
      message == OrElse(errorText, FAILED_TO_START)
      composed == IF Truthy(rid)
                  THEN message \o <<" ", "(">> \o REQUEST_ID_KEY \o rid \o <<")">>
                  ELSE message
  IN  ErrorOf(composed)

(* ---------------------------- environment ------------------------------ *)
\* Texts the user types.
InputTexts == { <<" ">>, <<" ", "y", "o", " ">> }

\* Values of the X-Request-ID response header; Undefined is a missing header.
HeaderIds == { Undefined, <<"r", "-", "1">> }

\* Bodies of error responses as response.text() returns them.
ErrorBodies == { <<>>, <<"b", "o", "o", "m">> }

\* Responses fetch() can resolve with.
Responses ==
  {[ok |-> TRUE, status |-> 200, hasBody |-> TRUE, text |-> <<>>, rid |-> r] : r \in HeaderIds}
  \cup {[ok |-> TRUE, status |-> 200, hasBody |-> FALSE, text |-> <<>>, rid |-> r] : r \in HeaderIds}
  \cup {[ok |-> FALSE, status |-> 500, hasBody |-> TRUE, text |-> t, rid |-> r] :
          t \in ErrorBodies, r \in HeaderIds}

\* The records of the event stream: Frame(payload) is a record prefixed
\* "data: ", Plain(text) one without the prefix; each ends with a blank line.
Frame(payload) == DATA_PREFIX \o payload \o FRAME_DELIM

Plain(text) == text \o FRAME_DELIM

\* A record as the service writes it: with the prefix or without it.
Data(payload) == [prefixed |-> TRUE, text |-> payload]

Other(text) == [prefixed |-> FALSE, text |-> text]

\* The bytes of a list of records.
RECURSIVE Encode(_)
Encode(fs) ==
  IF fs = <<>> THEN <<>>
  ELSE (IF Head(fs).prefixed THEN Frame(Head(fs).text) ELSE Plain(Head(fs).text))
       \o Encode(Tail(fs))

\* What one read can hold when the chunks are cut between records.
NetRecords ==
  { << Data(<<"a">>), Data(<<"b">>) >>,
    << Data(<<>>) >>,
    << Data(DONE_SENTINEL) >>,
    << Data(<<"b">>), Other(<<"d", "a", "t", "a", ":", "x">>), Data(DONE_SENTINEL), Data(<<"a">>) >> }

\* Byte chunks reader.read() can return, each made of whole records.
NetChunks == { Encode(fs) : fs \in NetRecords }

\* Values fetch() or reader.read() can reject with.
NetErrors == { ErrorOf(<<>>), NonError }

(* ------------------------------ actions -------------------------------- *)
\* onChange of the input element; a discrete event, rendered before the next.
ChangeInput(text) ==
  /\ input' = text
  /\ view' = Snapshot(text, isLoading, sessionId, lastUserMessage, errorMessage)
  /\ UNCHANGED <<messages, isLoading, sessionId, requestId, lastUserMessage,
                 errorMessage, calls, hasCrypto, uuids, reads, unhandled,
                 failure>>

\* Variant: handleSubmit without setErrorMessage(undefined).
handleSubmit_KeepsError ==
  IF SubmitRejects(view)
  THEN UNCHANGED vars
  ELSE LET userMessage == UserMessage(view)
           sid == SubmitSid(view)
           newSid == IF Truthy(sid) /\ ~Truthy(view.sessionId) THEN sid ELSE sessionId
           withUser == Append(messages, [role |-> "user", content |-> userMessage])
           withSlot == Append(withUser, [role |-> "assistant", content |-> <<>>])
       IN  /\ Len(calls) < MaxCalls
           /\ input' = <<>>
           /\ messages' = withSlot
           /\ isLoading' = TRUE
           /\ lastUserMessage' = userMessage
           /\ sessionId' = newSid
           /\ uuids' = IF view.sessionId = Undefined /\ hasCrypto THEN uuids + 1 ELSE uuids
           /\ calls' = Append(calls, NewCall("send", userMessage, sid, view.input, Len(withSlot)))
           /\ view' = Snapshot(<<>>, TRUE, newSid, userMessage, errorMessage)
           /\ failure' = NoFailure
           /\ UNCHANGED <<errorMessage, requestId, hasCrypto, reads, unhandled>>

\* handleSubmit up to its await, and the render that follows the event.
handleSubmit ==
  IF SubmitRejects(view)
  THEN UNCHANGED vars
  ELSE LET userMessage == UserMessage(view)
           sid == SubmitSid(view)
           newSid == IF Truthy(sid) /\ ~Truthy(view.sessionId) THEN sid ELSE sessionId
           withUser == Append(messages, [role |-> "user", content |-> userMessage])
           withSlot == Append(withUser, [role |-> "assistant", content |-> <<>>])
       IN  /\ Len(calls) < MaxCalls
           /\ input' = <<>>
           /\ messages' = withSlot
           /\ isLoading' = TRUE
           /\ errorMessage' = Undefined
           /\ lastUserMessage' = userMessage
           /\ sessionId' = newSid
           /\ uuids' = IF view.sessionId = Undefined /\ hasCrypto THEN uuids + 1 ELSE uuids
           /\ calls' = Append(calls, NewCall("send", userMessage, sid, view.input, Len(withSlot)))
           /\ view' = Snapshot(<<>>, TRUE, newSid, userMessage, Undefined)
           /\ failure' = NoFailure
           /\ UNCHANGED <<requestId, hasCrypto, reads, unhandled>>

\* Two submit events dispatched before the component renders again: the
\* handler of the last render runs twice, so both runs read the same input,
\* isLoading and sessionId (the guard of line 61 included), and the updates
\* they queue are applied in order: both updater pairs of setMessages, the
\* second setSessionId over the first.
handleSubmitTwice ==
  IF SubmitRejects(view)
  THEN UNCHANGED vars
  ELSE LET userMessage == UserMessage(view)
           sid1 == SubmitSid(view)
           sid2 == Coalesce(view.sessionId,
                            IF hasCrypto THEN Uuid(uuids + 2) ELSE Undefined)
           newSid == IF Truthy(sid2) /\ ~Truthy(view.sessionId) THEN sid2 ELSE sessionId
           pair == << [role |-> "user", content |-> userMessage],
                      [role |-> "assistant", content |-> <<>>] >>
       IN  /\ Len(calls) + 2 <= MaxCalls
           /\ input' = <<>>
           /\ messages' = messages \o pair \o pair
           /\ isLoading' = TRUE
           /\ errorMessage' = Undefined
           /\ lastUserMessage' = userMessage
           /\ sessionId' = newSid
           /\ uuids' = IF view.sessionId = Undefined /\ hasCrypto THEN uuids + 2 ELSE uuids
           /\ calls' = calls \o
                 << NewCall("send", userMessage, sid1, view.input, Len(messages) + 2),
                    NewCall("send", userMessage, sid2, view.input, Len(messages) + 4) >>
           /\ view' = Snapshot(<<>>, TRUE, newSid, userMessage, Undefined)
           /\ failure' = NoFailure
           /\ UNCHANGED <<requestId, hasCrypto, reads, unhandled>>

\* Variant: the Retry onClick without setErrorMessage(undefined).
retry_KeepsError ==
  IF ~RetryOffered(view) \/ RetryRejects(view)
  THEN UNCHANGED vars
  ELSE LET withSlot == Append(messages, [role |-> "assistant", content |-> <<>>])
       IN  /\ Len(calls) < MaxCalls
           /\ isLoading' = TRUE
           /\ messages' = withSlot
           /\ calls' = Append(calls, NewCall("retry", RetryMessage(view), RetrySid(view),
                                             view.lastUserMessage, Len(withSlot)))
           /\ view' = Snapshot(input, TRUE, sessionId, lastUserMessage, errorMessage)
           /\ failure' = NoFailure
           /\ UNCHANGED <<input, sessionId, requestId, lastUserMessage, errorMessage,
                          hasCrypto, uuids, reads, unhandled>>

\* Variant: Retry empties the trailing assistant entry and streams into it.
retry_ReusesSlot ==
  IF ~RetryOffered(view) \/ RetryRejects(view)
  THEN UNCHANGED vars
  ELSE LET withSlot == [messages EXCEPT ![Len(messages)].content = <<>>]
       IN  /\ Len(calls) < MaxCalls
           /\ errorMessage' = Undefined
           /\ isLoading' = TRUE
           /\ messages' = withSlot
           /\ calls' = Append(calls, NewCall("retry", RetryMessage(view), RetrySid(view),
                                             view.lastUserMessage, Len(withSlot)))
           /\ view' = Snapshot(input, TRUE, sessionId, lastUserMessage, Undefined)
           /\ failure' = NoFailure
           /\ UNCHANGED <<input, sessionId, requestId, lastUserMessage, hasCrypto,
                          uuids, reads, unhandled>>

\* A click on Retry, and the render that follows the event.  Without an error
\* notice there is no button and the command does nothing.
retry ==
  IF ~RetryOffered(view) \/ RetryRejects(view)
  THEN UNCHANGED vars
  ELSE LET withSlot == Append(messages, [role |-> "assistant", content |-> <<>>])
       IN  /\ Len(calls) < MaxCalls
           /\ errorMessage' = Undefined
           /\ isLoading' = TRUE
           /\ messages' = withSlot
           /\ calls' = Append(calls, NewCall("retry", RetryMessage(view), RetrySid(view),
                                             view.lastUserMessage, Len(withSlot)))
           /\ view' = Snapshot(input, TRUE, sessionId, lastUserMessage, Undefined)
           /\ failure' = NoFailure
           /\ UNCHANGED <<input, sessionId, requestId, lastUserMessage, hasCrypto,
                          uuids, reads, unhandled>>

\* Variant: an answer that is still empty when the promise resolves is
\* treated as a failure.
Resolved_EmptyIsError(i, msgs, value, frags, outcome) ==
  /\ calls' = [calls EXCEPT ![i].pc = "resolved", ![i].outcome = outcome,
                            ![i].wire = @ \o value,
                            ![i].delivered = @ \o frags]
  /\ messages' = IF Truthy(msgs[Len(msgs)].content) THEN msgs ELSE ApologyUpdate(msgs)
  /\ errorMessage' = IF Truthy(msgs[Len(msgs)].content) THEN errorMessage ELSE UNKNOWN_ERROR
  /\ isLoading' = FALSE
  /\ view' = Snapshot(input, FALSE, sessionId, lastUserMessage, errorMessage')
  /\ UNCHANGED <<input, sessionId, requestId, lastUserMessage,
                 hasCrypto, uuids, unhandled, failure>>

\* Variant: the command has no finally, the busy flag is left as it is.
Resolved_NoFinally(i, msgs, value, frags, outcome) ==
  /\ calls' = [calls EXCEPT ![i].pc = "resolved", ![i].outcome = outcome,
                            ![i].wire = @ \o value,
                            ![i].delivered = @ \o frags]
  /\ messages' = msgs
  /\ UNCHANGED <<input, isLoading, view, sessionId, requestId, lastUserMessage,
                 errorMessage, hasCrypto, uuids, unhandled, failure>>

\* Variant: the promise resolves while the read loop goes on.
Resolved_KeepsReading(i, msgs, value, frags, outcome) ==
  /\ calls' = [calls EXCEPT ![i].outcome = outcome,
                            ![i].wire = @ \o value,
                            ![i].delivered = @ \o frags]
  /\ messages' = msgs
  /\ isLoading' = FALSE
  /\ view' = Snapshot(input, FALSE, sessionId, lastUserMessage, errorMessage)
  /\ UNCHANGED <<input, sessionId, requestId, lastUserMessage, errorMessage,
                 hasCrypto, uuids, unhandled, failure>>

\* The promise of invocation i resolves: the command's finally runs, and the
\* update is rendered.
Resolved(i, msgs, value, frags, outcome) ==
  /\ calls' = [calls EXCEPT ![i].pc = "resolved", ![i].outcome = outcome,
                            ![i].wire = @ \o value,
                            ![i].delivered = @ \o frags]
  /\ messages' = msgs
  /\ isLoading' = FALSE
  /\ view' = Snapshot(input, FALSE, sessionId, lastUserMessage, errorMessage)
  /\ UNCHANGED <<input, sessionId, requestId, lastUserMessage, errorMessage,
                 hasCrypto, uuids, unhandled, failure>>

\* Variant: the catch of a failed attempt calls the Transport again.
Rejected_AutoRetry(i, err) ==
  /\ calls' = Append([calls EXCEPT ![i].pc = "rejected", ![i].outcome = "error"],
                     NewCall("retry", calls[i].message, calls[i].session_id,
                             calls[i].raw, Len(ApologyUpdate(messages))))
  /\ Len(calls) < MaxCalls
  /\ failure' = err
  /\ errorMessage' = ErrorText(err)
  /\ requestId' = ErrorRequestId(requestId, ErrorText(err))
  /\ messages' = ApologyUpdate(messages)
  /\ isLoading' = TRUE
  /\ view' = Snapshot(input, TRUE, sessionId, lastUserMessage, errorMessage')
  /\ UNCHANGED <<input, sessionId, lastUserMessage, hasCrypto, uuids, reads, unhandled>>

\* The promise of invocation i rejects with err: the command's catch
\* (applyStreamError) runs, then its finally, and the updates are rendered.
Rejected(i, err) ==
  /\ calls' = [calls EXCEPT ![i].pc = "rejected", ![i].outcome = "error"]
  /\ failure' = err
  /\ IF Catches(calls[i].kind)
     THEN /\ errorMessage' = ErrorText(err)
          /\ requestId' = ErrorRequestId(requestId, ErrorText(err))
          /\ messages' = ApologyUpdate(messages)
          /\ UNCHANGED unhandled
     ELSE /\ unhandled' = TRUE
          /\ UNCHANGED <<errorMessage, requestId, messages>>
  /\ isLoading' = FALSE
  /\ view' = Snapshot(input, FALSE, sessionId, lastUserMessage, errorMessage')
  /\ UNCHANGED <<input, sessionId, lastUserMessage, hasCrypto, uuids, reads>>

\* fetch() rejects: connection failure.
FetchFails(i, err) ==
  /\ calls[i].pc = "fetch"
  /\ Rejected(i, err)

\* fetch() resolves with a response that is not ok or has no body.
FetchRefused(i, resp) ==
  /\ calls[i].pc = "fetch"
  /\ ~resp.ok \/ ~resp.hasBody
  /\ Rejected(i, StartError(resp))

\* Variant: the controller stops waiting once the response has started.
FetchStreams_ClearsBusy(i, resp) ==
  /\ calls[i].pc = "fetch"
  /\ resp.ok /\ resp.hasBody
  /\ calls' = [calls EXCEPT ![i].pc = "read",
                            ![i].starts = Append(@, StartArg(resp))]
  /\ requestId' = OnStartRequestId(requestId, StartArg(resp))
  /\ isLoading' = FALSE
  /\ view' = Snapshot(input, FALSE, sessionId, lastUserMessage, errorMessage)
  /\ UNCHANGED <<messages, input, sessionId, lastUserMessage,
                 errorMessage, hasCrypto, uuids, reads, unhandled,
                 failure>>

\* fetch() resolves with a streamable response: onStart, then the first read.
FetchStreams(i, resp) ==
  /\ calls[i].pc = "fetch"
  /\ resp.ok /\ resp.hasBody
  /\ calls' = [calls EXCEPT ![i].pc = "read",
                            ![i].starts = Append(@, StartArg(resp))]
  /\ requestId' = OnStartRequestId(requestId, StartArg(resp))
  /\ UNCHANGED <<messages, input, isLoading, sessionId, lastUserMessage,
                 errorMessage, view, hasCrypto, uuids, reads, unhandled,
                 failure>>

\* reader.read() returns a chunk: one pass of the while loop.
ReadChunk(i, value) ==
  /\ calls[i].pc = "read"
  /\ reads < MaxChunks
  /\ reads' = reads + 1
  /\ LET r == ProcessChunk(value)
         msgs == AppendChunks(messages, r.frags)
     IN  IF r.done
         THEN Resolved(i, msgs, value, r.frags, "sentinel")
         ELSE /\ calls' = [calls EXCEPT ![i].wire = @ \o value,
                                        ![i].delivered = @ \o r.frags]
              /\ messages' = msgs
              /\ UNCHANGED <<input, isLoading, sessionId, requestId,
                             lastUserMessage, errorMessage, view, hasCrypto,
                             uuids, unhandled, failure>>

\* Variant: the end of the stream without the sentinel is a failure.
ReadDone_NeedsSentinel(i) ==
  /\ calls[i].pc = "read"
  /\ Rejected(i, ErrorOf(UNKNOWN_ERROR))

\* reader.read() returns done: the loop breaks and the function returns.
ReadDone(i) ==
  /\ calls[i].pc = "read"
  /\ Resolved(i, messages, <<>>, <<>>, "eof")
  /\ UNCHANGED reads

\* reader.read() rejects: failure in the middle of the stream.
ReadFails(i, err) ==
  /\ calls[i].pc = "read"
  /\ Rejected(i, err)

Next ==
  \/ \E text \in InputTexts : ChangeInput(text)
  \/ handleSubmit
  \/ retry
  \/ \E i \in 1..Len(calls), err \in NetErrors : FetchFails(i, err)
  \/ \E i \in 1..Len(calls), resp \in Responses : FetchRefused(i, resp)
  \/ \E i \in 1..Len(calls), resp \in Responses : FetchStreams(i, resp)
  \/ \E i \in 1..Len(calls), value \in NetChunks : ReadChunk(i, value)
  \/ \E i \in 1..Len(calls) : ReadDone(i)
  \/ \E i \in 1..Len(calls), err \in NetErrors : ReadFails(i, err)

Spec == Init /\ [][Next]_vars

(* ------------------- a second environment: texts ----------------------- *)
\* Two texts that differ after trimming, and a blank one.
TypedTexts == { <<" ">>, <<" ", "y", "o", " ">>, <<"h", "i">> }

\* Correlation ids as they can stand inside an error text.
TOKEN == <<"Q", "_", "7">>

TOKEN2 == <<"r", "-", "1">>

\* Errors whose text names a correlation id: in the middle of the text, the
\* token ended by a character outside the class; and at the end of the text,
\* the key in upper case.
TextErrors ==
  { ErrorOf(<<"n", "o", " ">> \o REQUEST_ID_KEY \o TOKEN \o <<";", " ", "x">>),
    ErrorOf(<<"R", "E", "Q", "U", "E", "S", "T", "_", "I", "D", "=">> \o TOKEN2) }

\* A response that is not a success, with a correlation id.
TextRefusals ==
  { [ok |-> FALSE, status |-> 500, hasBody |-> TRUE, text |-> <<"b", "o", "o", "m">>,
     rid |-> <<"r", "-", "9">>] }

TextResponses ==
  { [ok |-> TRUE, status |-> 200, hasBody |-> TRUE, text |-> <<>>, rid |-> Undefined] }

TextChunks == { Frame(<<"a">>) \o Frame(DONE_SENTINEL) }

NextText ==
  \/ \E text \in TypedTexts : ChangeInput(text)
  \/ handleSubmit
  \/ retry
  \/ \E i \in 1..Len(calls), err \in TextErrors : FetchFails(i, err)
  \/ \E i \in 1..Len(calls), resp \in TextRefusals : FetchRefused(i, resp)
  \/ \E i \in 1..Len(calls), resp \in TextResponses : FetchStreams(i, resp)
  \/ \E i \in 1..Len(calls), value \in TextChunks : ReadChunk(i, value)
  \/ \E i \in 1..Len(calls) : ReadDone(i)
  \/ \E i \in 1..Len(calls), err \in TextErrors : ReadFails(i, err)

SpecText == Init /\ [][NextText]_vars

\* The network answers the request of invocation i, or ends its stream,
\* under the second environment.
NetText ==
  \E i \in 1..Len(calls) :
    \/ \E resp \in TextResponses : FetchStreams(i, resp)
    \/ ReadDone(i)
    \/ \E resp \in TextRefusals : FetchRefused(i, resp)

\* The second environment with a network that does not hang: a request that
\* has not failed is eventually answered and a stream that has not failed
\* eventually ends, however many chunks it delivers before.
SpecLive == Init /\ [][NextText]_vars /\ WF_vars(NetText)

(* ------------- a third environment: chunks cut anywhere ----------------- *)
\* reader.read() returns whatever bytes have arrived: a chunk can end inside
\* a record, inside the prefix, inside the delimiter, inside the sentinel or
\* inside a character.
CutChunks ==
  { <<"d", "a", "t", "a", ":", " ", "a">>,
    <<"b", "\n", "\n">>,
    <<"d", "a">>,
    <<"t", "a", ":", " ", "a", "\n", "\n">>,
    <<"d", "a", "t", "a", ":", " ", "a", "\n">>,
    <<"\n">> \o Frame(<<"b">>),
    <<"d", "a", "t", "a", ":", " ", "[", "D", "O">>,
    <<"N", "E", "]", "\n", "\n">>,
    <<"d", "a", "t", "a", ":", " ", "C3">>,
    <<"A9", "\n", "\n">> }

NextCuts ==
  \/ \E text \in InputTexts : ChangeInput(text)
  \/ handleSubmit
  \/ \E i \in 1..Len(calls), resp \in TextResponses : FetchStreams(i, resp)
  \/ \E i \in 1..Len(calls), value \in CutChunks : ReadChunk(i, value)
  \/ \E i \in 1..Len(calls) : ReadDone(i)

SpecCuts == Init /\ [][NextCuts]_vars

(* Environment of dotted ids: the service refuses requests with responses   *)
(* whose X-Request-ID holds a '.', which the API accepts in request ids.    *)
DottedIds == { <<"v", "1", ".", "a">>, <<".", "b">> }

DottedRefusals ==
  { [ok |-> FALSE, status |-> 500, hasBody |-> TRUE, text |-> <<"b", "o", "o", "m">>,
     rid |-> r] : r \in DottedIds }

NextDot ==
  \/ \E text \in TypedTexts : ChangeInput(text)
  \/ handleSubmit
  \/ retry
  \/ \E i \in 1..Len(calls), resp \in DottedRefusals : FetchRefused(i, resp)
  \/ \E i \in 1..Len(calls), resp \in TextResponses : FetchStreams(i, resp)
  \/ \E i \in 1..Len(calls), value \in TextChunks : ReadChunk(i, value)
  \/ \E i \in 1..Len(calls) : ReadDone(i)

SpecDot == Init /\ [][NextDot]_vars

(* Fourth environment: as the second, and the form can also receive two     *)
(* submit events within one task, before the render that follows the first. *)
NextBurst ==
  \/ \E text \in InputTexts : ChangeInput(text)
  \/ handleSubmit
  \/ handleSubmitTwice
  \/ retry
  \/ \E i \in 1..Len(calls), err \in NetErrors : FetchFails(i, err)
  \/ \E i \in 1..Len(calls), resp \in TextResponses : FetchStreams(i, resp)
  \/ \E i \in 1..Len(calls), value \in TextChunks : ReadChunk(i, value)
  \/ \E i \in 1..Len(calls) : ReadDone(i)

SpecBurst == Init /\ [][NextBurst]_vars

(* ------------------------------ properties ----------------------------- *)
UserCount(msgs) == Cardinality({k \in 1..Len(msgs) : msgs[k].role = "user"})

SendCalls == {i \in 1..Len(calls) : calls[i].kind = "send"}

RetryCalls == {i \in 1..Len(calls) : calls[i].kind = "retry"}

\* The send whose text attempt i carries.
SendOf(i) == CHOOSE j \in SendCalls : j <= i /\ \A k \in SendCalls : k <= i => k <= j

\* The content of the assistant entry appended for attempt i.
SlotContent(i) == messages[calls[i].slot].content

\* This step starts a Transport invocation of the given kind.
Starts(kind) ==
  /\ Len(calls') = Len(calls) + 1
  /\ calls'[Len(calls')].kind = kind

\* This step is the failure of attempt i.
Fails(i) == calls[i].pc # "rejected" /\ Len(calls') = Len(calls) /\ calls'[i].pc = "rejected"

\* C1: an attempt (send or retry) that ended on the [DONE] sentinel leaves in
\* its assistant entry exactly the concatenation of the fragments delivered,
\* in delivery order; when it is the latest attempt that entry is the trailing
\* one and the controller is Idle: not busy, no error.
C1_SentinelContent ==
  \A i \in 1..Len(calls) :
    calls[i].outcome = "sentinel" =>
      /\ messages[calls[i].slot].role = "assistant"
      /\ SlotContent(i) = Concat(calls[i].delivered)
      /\ i = Len(calls) =>
           /\ calls[i].slot = Len(messages)
           /\ ~isLoading
           /\ errorMessage = Undefined

C1_Witness ==
  \E i \in 1..Len(calls) :
    /\ calls[i].outcome = "sentinel"
    /\ Len(calls[i].delivered) >= 2
    /\ calls[i].delivered[1] # calls[i].delivered[2]
    /\ SlotContent(i) = calls[i].delivered[1] \o calls[i].delivered[2]

\* C2: at most one Transport invocation is in flight in every reachable state.
C2_OneInFlight == Cardinality(InFlight) <= 1

C2_Witness ==
  /\ Len(calls) >= 2
  /\ Cardinality(InFlight) = 1
  /\ Truthy(Trim(view.input))

\* C3: while the controller is Sending no step adds a user Message or starts
\* a Transport invocation, neither the send itself (it changes nothing at
\* all) nor the step that ends the attempt.
C3_SendWhileSending ==
  [][isLoading =>
       /\ Len(calls') = Len(calls)
       /\ UserCount(messages') = UserCount(messages)
       /\ handleSubmit => UNCHANGED vars]_vars

C3_Witness ==
  /\ isLoading
  /\ view.isLoading
  /\ Truthy(Trim(view.input))
  /\ InFlight # {}

\* C4 as stated: the user Message of an accepted send holds the text the
\* send was given.
C4_ContentIsRawText ==
  \A i \in SendCalls :
    messages[calls[i].slot - 1] = [role |-> "user", content |-> calls[i].raw]

\* C4 amended: every accepted send has appended exactly one user Message,
\* holding the trimmed text, right before the attempt's assistant entry; it is
\* there when the Transport has just been invoked and no fragment is applied.
C4_UserMessageFirst ==
  /\ UserCount(messages) = Cardinality(SendCalls)
  /\ \A i \in SendCalls :
       /\ calls[i].slot >= 2
       /\ messages[calls[i].slot - 1] = [role |-> "user", content |-> Trim(calls[i].raw)]
       /\ calls[i].pc = "fetch" => SlotContent(i) = <<>> /\ calls[i].delivered = <<>>

C4_Witness ==
  \E i \in SendCalls :
    /\ calls[i].pc = "fetch"
    /\ calls[i].raw # Trim(calls[i].raw)
    /\ messages[calls[i].slot - 1].content = Trim(calls[i].raw)

\* C5 as stated: after a failure that follows at least one fragment, the
\* assistant entry holds the concatenation of the fragments.
C5_AnyFragmentKept ==
  \A i \in 1..Len(calls) :
    (calls[i].outcome = "error" /\ Len(calls[i].delivered) >= 1) =>
      SlotContent(i) = Concat(calls[i].delivered)

\* C5 amended: after a failure that follows fragments whose concatenation is
\* not empty, the assistant entry holds exactly that concatenation, the
\* failure removed or altered no entry, and the controller is in Error.
C5_PartialKept ==
  /\ [](\A i \in 1..Len(calls) :
          (calls[i].outcome = "error" /\ Concat(calls[i].delivered) # <<>>) =>
            /\ SlotContent(i) = Concat(calls[i].delivered)
            /\ i = Len(calls) => ~isLoading /\ errorMessage # Undefined)
  /\ [][\A i \in 1..Len(calls) :
          (Fails(i) /\ Concat(calls[i].delivered) # <<>>) =>
            SubSeq(messages', 1, Len(messages)) = messages]_vars

C5_Witness ==
  \E i \in 1..Len(calls) :
    /\ calls[i].outcome = "error"
    /\ Concat(calls[i].delivered) # <<>>
    /\ SlotContent(i) = Concat(calls[i].delivered)
    /\ i = Len(calls)
    /\ errorMessage # Undefined

\* C6: an attempt that fails while its assistant entry is still empty has that
\* entry's content replaced by the apology; when it is the latest attempt the
\* transcript is as long as before the failure and the controller is in Error
\* with lastError the message of the failure ("Unknown error" for a value
\* that is no Error).
C6_EmptyFailure ==
  \A i \in 1..Len(calls) :
    (calls[i].outcome = "error" /\ Concat(calls[i].delivered) = <<>>) =>
      /\ messages[calls[i].slot] = [role |-> "assistant", content |-> APOLOGY]
      /\ i = Len(calls) =>
           /\ Len(messages) = calls[i].slot
           /\ ~isLoading
           /\ failure.isError => errorMessage = failure.message
           /\ ~failure.isError => errorMessage = UNKNOWN_ERROR

C6_Witness ==
  /\ Len(calls) >= 1
  /\ calls[Len(calls)].outcome = "error"
  /\ calls[Len(calls)].delivered = <<>>
  /\ messages[Len(messages)].content = APOLOGY
  /\ Truthy(errorMessage)

\* C7: no rejection escapes a command, and after the failure of the latest
\* attempt the busy flag is false and lastError is set.
C7_FailuresCaught ==
  /\ ~unhandled
  /\ \A i \in 1..Len(calls) :
       (calls[i].pc = "rejected" /\ i = Len(calls)) =>
         /\ ~isLoading
         /\ errorMessage # Undefined
         /\ failure # NoFailure

C7_Witness ==
  /\ Len(calls) >= 2
  /\ calls[Len(calls)].kind = "retry"
  /\ calls[Len(calls)].pc = "rejected"
  /\ calls[Len(calls)].starts # <<>>
  /\ errorMessage # Undefined

\* C8: there are as many user Messages as accepted sends; an accepted retry
\* appends one empty assistant entry and nothing else, carries the text the
\* most recent accepted send submitted (the content of the last user
\* Message), and its fragments accumulate in that new entry.
C8_Retry ==
  /\ [](/\ UserCount(messages) = Cardinality(SendCalls)
        /\ \A i \in RetryCalls :
             /\ \E j \in SendCalls : j < i
             /\ calls[i].message = calls[SendOf(i)].message
             /\ calls[i].message = messages[calls[SendOf(i)].slot - 1].content
             /\ messages[calls[i].slot].role = "assistant"
             /\ calls[i].outcome # "error" => SlotContent(i) = Concat(calls[i].delivered))
  /\ [][Starts("retry") =>
          messages' = Append(messages, [role |-> "assistant", content |-> <<>>])]_vars

C8_Witness ==
  \E i \in RetryCalls :
    /\ calls[i].outcome \in {"sentinel", "eof"}
    /\ Concat(calls[i].delivered) # <<>>
    /\ SlotContent(i) = Concat(calls[i].delivered)
    /\ UserCount(messages) = 1

\* C9: a retry passes to the Transport the session identity that the failed
\* attempt before it passed.
C9_SameSession ==
  \A i \in RetryCalls :
    /\ i >= 2
    /\ calls[i].session_id = calls[i - 1].session_id

C9_Witness ==
  \E i \in RetryCalls :
    /\ i = 2
    /\ calls[1].kind = "send"
    /\ Truthy(calls[i].session_id)
    /\ calls[i].session_id = calls[1].session_id

\* C10: a retry starts an attempt only when the latest attempt has failed and
\* the controller is not Sending; while Sending, or when the latest attempt
\* did not fail, a retry changes nothing.
C10_RetryGuard ==
  [][/\ Starts("retry") =>
          /\ Len(calls) >= 1
          /\ calls[Len(calls)].pc = "rejected"
          /\ ~isLoading
     /\ (retry /\ (isLoading \/ Len(calls) = 0 \/ calls[Len(calls)].pc # "rejected")) =>
          UNCHANGED vars]_vars

C10_Witness ==
  /\ Len(calls) >= 2
  /\ calls[Len(calls)].kind = "retry"
  /\ calls[Len(calls) - 1].pc = "rejected"
  /\ isLoading

\* C11: an accepted send has the same effect in Error as in Idle: it clears
\* lastError, appends the user Message holding the trimmed text and an empty
\* assistant Message, sets the busy flag and invokes the Transport with that
\* text; from then on the text a retry resubmits is the text of this send,
\* not the text of the attempt that failed before it.
C11_SendInError ==
  /\ [](\A i \in RetryCalls : calls[i].message = calls[SendOf(i)].message)
  /\ [][Starts("send") =>
          /\ errorMessage' = Undefined
          /\ isLoading'
          /\ messages' = messages \o << [role |-> "user", content |-> Trim(input)],
                                        [role |-> "assistant", content |-> <<>>] >>
          /\ calls'[Len(calls')].message = Trim(input)
          /\ lastUserMessage' = Trim(input)
          /\ RetryMessage(view') = Trim(input)]_vars

C11_Witness ==
  /\ Len(calls) = 2
  /\ calls[1].pc = "rejected"
  /\ calls[2].kind = "send"
  /\ calls[2].message # calls[1].message
  /\ calls[2].pc = "fetch"
  /\ errorMessage = Undefined
  /\ isLoading
  /\ RetryMessage(view) = calls[2].message

\* C12: from the moment a retry is accepted until its attempt ends lastError
\* is absent; once its stream has ended cleanly (sentinel or end of the
\* source) lastError is still absent, the controller is not busy, and the
\* Retry action is not offered.
C12_RetryClean ==
  \A i \in RetryCalls :
    i = Len(calls) =>
      /\ calls[i].pc \in {"fetch", "read"} => errorMessage = Undefined /\ isLoading
      /\ calls[i].pc = "resolved" =>
           /\ errorMessage = Undefined
           /\ ~isLoading
           /\ ~RetryOffered(view)

C12_Witness ==
  /\ Len(calls) = 2
  /\ calls[2].kind = "retry"
  /\ calls[2].outcome = "sentinel"
  /\ Truthy(SlotContent(2))
  /\ calls[1].pc = "rejected"
  /\ ~RetryOffered(view)

\* C13: a send whose text is empty or only whitespace changes nothing,
\* whatever the state of the controller: transcript, busy flag, lastError,
\* correlation id, session identity and last user text stay as they are and
\* no Transport invocation is started.
C13_BlankSend ==
  [][(handleSubmit /\ Trim(input) = <<>>) =>
       UNCHANGED <<messages, isLoading, errorMessage, requestId, sessionId,
                   lastUserMessage, calls>>]_vars

C13_Witness ==
  /\ input = <<" ">>
  /\ view.input = <<" ">>
  /\ ~isLoading
  /\ Truthy(errorMessage)
  /\ Truthy(lastUserMessage)
  /\ Len(calls) < MaxCalls

\* The record is the [DONE] sentinel.
IsSentinel(f) == f.prefixed /\ f.text = DONE_SENTINEL

HasSentinel(fs) == \E k \in 1..Len(fs) : IsSentinel(fs[k])

\* The payloads of the prefixed records that precede the first sentinel.
RECURSIVE Payloads(_)
Payloads(fs) ==
  IF fs = <<>> \/ IsSentinel(Head(fs)) THEN <<>>
  ELSE (IF Head(fs).prefixed THEN <<Head(fs).text>> ELSE <<>>) \o Payloads(Tail(fs))

\* C14: when a read returns a chunk made of whole records, onChunk is called
\* with exactly the payloads of its records prefixed "data: " that precede
\* its first [DONE] record, once each and in order; records without the
\* prefix and records after [DONE] give no call; the invocation ends there
\* exactly when the chunk holds a [DONE] record, and an invocation that has
\* ended on [DONE] delivers nothing more.
C14_Decoding ==
  [][\A i \in 1..Len(calls) :
       /\ (calls[i].pc = "read" /\ reads' # reads) =>
            \A fs \in NetRecords :
              ReadChunk(i, Encode(fs)) =>
                /\ calls'[i].delivered = calls[i].delivered \o Payloads(fs)
                /\ (calls'[i].outcome = "sentinel") = HasSentinel(fs)
                /\ (calls'[i].pc = "read") = ~HasSentinel(fs)
       /\ (calls[i].outcome = "sentinel" /\ Len(calls') >= i) =>
            calls'[i].delivered = calls[i].delivered]_vars

C14_Witness ==
  \E i \in 1..Len(calls) :
    /\ calls[i].outcome = "sentinel"
    /\ calls[i].delivered = << <<"a">>, <<"b">>, <<"b">> >>
    /\ IndexOf(calls[i].wire, <<"d", "a", "t", "a", ":", "x">>) > 0
    /\ IndexOf(calls[i].wire, Frame(DONE_SENTINEL) \o Frame(<<"a">>)) > 0

\* The bytes are a stream of whole records.
WholeRecords(w) ==
  Len(w) >= Len(FRAME_DELIM) /\ SubSeq(w, Len(w) - Len(FRAME_DELIM) + 1, Len(w)) = FRAME_DELIM

\* C15: the fragments an invocation has delivered when its stream of records
\* has ended do not depend on how the bytes were cut into chunks: they are
\* the fragments delivered when the same bytes arrive as one chunk.
C15_CutIndependent ==
  \A i \in 1..Len(calls) :
    (calls[i].outcome \in {"sentinel", "eof"} /\ WholeRecords(calls[i].wire)) =>
      calls[i].delivered = ProcessChunk(calls[i].wire).frags

\* C16: an invocation calls onStart at most once; it has called it exactly
\* once as soon as a streamable response has arrived, with the correlation id
\* of that response (absent when the response has none) and before any
\* onChunk call; an invocation whose request fails before the stream starts
\* (fetch rejects, or the response is not streamable) has called neither
\* onStart nor onChunk.
C16_OnStart ==
  /\ [](\A i \in 1..Len(calls) :
          /\ Len(calls[i].starts) <= 1
          /\ calls[i].pc = "fetch" => calls[i].starts = <<>>
          /\ calls[i].pc \in {"read", "resolved"} => Len(calls[i].starts) = 1
          /\ calls[i].delivered # <<>> => Len(calls[i].starts) = 1)
  /\ [][\A i \in 1..Len(calls) :
          (calls[i].pc = "fetch" /\ calls'[i].pc # "fetch") =>
            /\ \A resp \in Responses :
                 FetchStreams(i, resp) =>
                   /\ calls'[i].starts = <<resp.rid>>
                   /\ calls'[i].delivered = <<>>
            /\ ((\E err \in NetErrors : FetchFails(i, err))
                   \/ (\E resp \in Responses : FetchRefused(i, resp))) =>
                 /\ calls'[i].starts = <<>>
                 /\ calls'[i].delivered = <<>>
                 /\ calls'[i].pc = "rejected"]_vars

C16_Witness ==
  \E i \in 1..Len(calls) :
    /\ calls[i].starts = << <<"r", "-", "1">> >>
    /\ calls[i].delivered # <<>>
    /\ \E j \in 1..Len(calls) :
         calls[j].pc = "rejected" /\ calls[j].starts = <<>> /\ calls[j].delivered = <<>>

\* The decimal digits of a natural number.
RECURSIVE Decimal(_)
Decimal(n) ==
  IF n < 10 THEN <<ToString(n)>> ELSE Decimal(n \div 10) \o <<ToString(n % 10)>>

STATUS_KEY == <<"s", "t", "a", "t", "u", "s", "=">>

\* The clause "(request_id=<id>)", with its leading space.
IdClause(id) == <<" ", "(">> \o REQUEST_ID_KEY \o id \o <<")">>

C18_NoBody ==
  [][\A i \in 1..Len(calls), resp \in Responses :
       (calls[i].pc = "fetch" /\ calls'[i].pc # "fetch"
          /\ resp.ok /\ ~resp.hasBody /\ FetchRefused(i, resp)) =>
         /\ failure'.isError
         /\ failure'.message =
              FAILED_TO_START \o (IF resp.rid = Undefined THEN <<>> ELSE IdClause(resp.rid))
         /\ calls'[i].pc = "rejected"
         /\ reads' = reads
         /\ calls'[i].wire = <<>>
         /\ calls'[i].delivered = <<>>]_vars

C18_Witness ==
  /\ Len(calls) >= 1
  /\ calls[Len(calls)].pc = "rejected"
  /\ calls[Len(calls)].wire = <<>>
  /\ failure = ErrorOf(FAILED_TO_START \o IdClause(<<"r", "-", "1">>))
  /\ errorMessage = failure.message
  /\ reads = 0

\* C19: an invocation ends once, by the sentinel, by the end of the source or
\* by a failure, and from then on nothing about it changes: no onStart call,
\* no onChunk call, no further read, no second ending.  The controller is
\* busy as long as an invocation is in flight, and while it is not busy the
\* transcript changes only when a command is accepted.
C19_Terminal ==
  /\ [](/\ \A i \in 1..Len(calls) :
             /\ calls[i].outcome \in {"sentinel", "eof", "error"}
                  <=> calls[i].pc \in {"resolved", "rejected"}
             /\ calls[i].outcome = "none" <=> i \in InFlight
        /\ InFlight # {} => isLoading)
  /\ [][/\ Len(calls') >= Len(calls)
        /\ \A i \in 1..Len(calls) :
             calls[i].outcome # "none" => calls'[i] = calls[i]
        /\ ~isLoading => (messages' = messages \/ Len(calls') = Len(calls) + 1)]_vars

C19_Witness ==
  /\ Len(calls) = 2
  /\ calls[1].outcome = "sentinel"
  /\ IndexOf(calls[1].wire, Frame(DONE_SENTINEL) \o Frame(<<"a">>)) > 0
  /\ calls[2].outcome = "error"
  /\ calls[2].delivered # <<>>
  /\ ~isLoading

\* The text holds "request_id=" (in any case) followed by the token.
NamesId(text, token) ==
  IndexOf(LowerStr(text), REQUEST_ID_KEY \o LowerStr(token)) > 0

\* C20: when the latest attempt has failed with an error text that holds
\* request_id=<token>, the controller is in Error with that text as lastError
\* and the retained correlation id is <token>, as written in the text.
C20_IdFromError ==
  (Len(calls) >= 1 /\ calls[Len(calls)].pc = "rejected") =>
    \A token \in {TOKEN, TOKEN2, <<"r", "-", "9">>} :
      (failure.isError /\ NamesId(failure.message, token)) =>
        /\ requestId = token
        /\ errorMessage = failure.message
        /\ ~isLoading

C20_Witness ==
  /\ Len(calls) = 2
  /\ calls[1].pc = "rejected"
  /\ calls[2].pc = "rejected"
  /\ calls[2].starts # <<>>
  /\ NamesId(failure.message, TOKEN)
  /\ requestId = TOKEN
  /\ IndexOf(errorMessage, REQUEST_ID_KEY \o TOKEN \o <<";">>) > 0

\* The text holds "request_id=" in some case.
HasIdKey(text) == IndexOf(LowerStr(text), REQUEST_ID_KEY) > 0

\* The latest attempt has ended and supplied no correlation id: onStart, if
\* called, carried none, and its error text, if it failed, names none.
LatestGaveNoId ==
  /\ Len(calls) >= 1
  /\ calls[Len(calls)].pc \in {"resolved", "rejected"}
  /\ \A k \in 1..Len(calls[Len(calls)].starts) : calls[Len(calls)].starts[k] = Undefined
  /\ calls[Len(calls)].pc = "rejected" => ~HasIdKey(ErrorText(failure))

\* C21: after an attempt that supplied no correlation id the controller
\* retains none, whatever earlier attempts supplied.
C21_LatestOnly == LatestGaveNoId => requestId = Undefined

\* C22: the session identity is created at most once, by the first accepted
\* send, and never changes afterwards; every Transport request, send or
\* retry, carries that same session_id.
C22_OneSession ==
  /\ [](/\ uuids <= 1
        /\ \A i \in 1..Len(calls) : calls[i].session_id = calls[1].session_id
        /\ Truthy(sessionId) => Len(calls) >= 1 /\ calls[1].session_id = sessionId
        /\ Len(calls) >= 1 => sessionId = calls[1].session_id)
  /\ [][Truthy(sessionId) => sessionId' = sessionId]_vars
  /\ [][sessionId' # sessionId => Len(calls) = 0 /\ Starts("send")]_vars

C22_Witness ==
  /\ Len(calls) = 2
  /\ calls[1].kind = "send"
  /\ calls[2].kind = "send"
  /\ Truthy(sessionId)
  /\ calls[2].session_id = sessionId
  /\ uuids = 1

\* C23: the transcript is append-only: its length never decreases, no entry
\* changes role, and an entry changes content only while the attempt it was
\* appended for is in flight (the step that handles its failure included);
\* after that no send, retry, fragment or failure changes it.
C23_AppendOnly ==
  [][/\ Len(messages') >= Len(messages)
     /\ \A k \in 1..Len(messages) :
          /\ messages'[k].role = messages[k].role
          /\ messages'[k] # messages[k] => \E i \in InFlight : calls[i].slot = k]_vars

C23_Witness ==
  /\ Len(calls) = 2
  /\ calls[1].pc = "rejected"
  /\ calls[1].delivered # <<>>
  /\ messages[calls[1].slot].content = Concat(calls[1].delivered)
  /\ calls[2].pc = "rejected"
  /\ calls[2].delivered # <<>>

\* C24 as stated: accepting a retry does not lengthen the transcript, and
\* the retry writes into the assistant entry of the failed attempt.
C24_RetryReusesSlot ==
  [][Starts("retry") =>
       /\ Len(messages') = Len(messages)
       /\ calls'[Len(calls')].slot = calls[Len(calls)].slot]_vars

\* C24: an accepted retry lengthens the transcript by exactly one: it leaves
\* every entry as it was, the one of the failed attempt included, appends an
\* empty assistant entry after them, and the retried fragments accumulate in
\* that new entry.
C24_RetryAppends ==
  /\ [](\A i \in RetryCalls :
          /\ i >= 2
          /\ calls[i].slot > calls[i - 1].slot
          /\ calls[i].outcome # "error" => SlotContent(i) = Concat(calls[i].delivered))
  /\ [][Starts("retry") =>
          /\ Len(messages') = Len(messages) + 1
          /\ SubSeq(messages', 1, Len(messages)) = messages
          /\ messages'[Len(messages')] = [role |-> "assistant", content |-> <<>>]
          /\ calls'[Len(calls')].slot = Len(messages')]_vars

C24_Witness ==
  /\ Len(calls) = 2
  /\ calls[2].kind = "retry"
  /\ calls[2].slot = calls[1].slot + 1
  /\ messages[calls[1].slot].content = APOLOGY
  /\ calls[2].outcome = "sentinel"
  /\ SlotContent(2) # <<>>

\* C25: at most one entry is open: the content of an entry changes only
\* while the controller is Sending, and then only in the last entry, which
\* is the assistant entry of the one attempt in flight.
C25_OneOpen ==
  [][\A k \in 1..Len(messages) :
       messages'[k].content # messages[k].content =>
         /\ isLoading
         /\ k = Len(messages)
         /\ messages[k].role = "assistant"
         /\ \E i \in InFlight : InFlight = {i} /\ calls[i].slot = k]_vars

C25_Witness ==
  /\ Len(calls) = 2
  /\ calls[1].delivered # <<>>
  /\ calls[2].pc = "read"
  /\ calls[2].delivered # <<>>
  /\ SlotContent(2) = Concat(calls[2].delivered)
  /\ SlotContent(1) = Concat(calls[1].delivered)
  /\ calls[2].slot = Len(messages)
  /\ isLoading

\* C26: there is no automatic retry: the Transport is invoked only by a step
\* that is an accepted send or an accepted retry, once per such step, so the
\* invocations number the accepted commands; the failure of an attempt
\* starts none and leaves the controller idle with nothing in flight.
C26_NoAutoRetry ==
  /\ [](~isLoading => InFlight = {})
  /\ [][Len(calls') # Len(calls) =>
          /\ Len(calls') = Len(calls) + 1
          /\ ~isLoading
          /\ handleSubmit \/ retry]_vars
  /\ [][\A i \in 1..Len(calls) : Fails(i) => ~isLoading' /\ InFlight' = {}]_vars

C26_Witness ==
  /\ Len(calls) = 2
  /\ calls[1].pc = "rejected"
  /\ calls[2].kind = "retry"
  /\ calls[2].pc = "rejected"
  /\ ~isLoading
  /\ Truthy(errorMessage)

\* C27: after an attempt that ended cleanly and whose response carried a
\* correlation id, the page shows that id.
C27_ShownOnSuccess ==
  \A i \in 1..Len(calls) :
    ( /\ i = Len(calls)
      /\ calls[i].pc = "resolved"
      /\ Len(calls[i].starts) = 1
      /\ Truthy(calls[i].starts[1]) ) => ShownRequestId = calls[i].starts[1]

\* C28: two submit events handled by the handler of one render are accepted
\* as one command at most: one user/assistant pair is appended, one
\* Transport invocation starts, and one attempt at most is in flight.
C28_NoDuplicate ==
  /\ [](Cardinality(InFlight) <= 1)
  /\ [][handleSubmitTwice =>
          /\ Len(calls') <= Len(calls) + 1
          /\ Len(messages') <= Len(messages) + 2]_vars

\* C29 as stated: the failure of an attempt leaves the transcript as long as
\* it was, whether or not fragments had arrived.
C29_FailureKeepsLength ==
  [][\A i \in 1..Len(calls) : Fails(i) => Len(messages') = Len(messages)]_vars

\* C29: the failure of an attempt whose assistant entry is still empty keeps
\* the transcript length and changes that trailing entry only, to the
\* apology; the failure of an attempt that has received content appends
\* exactly one assistant entry, the apology, and changes no existing entry.
C29_FailureAppendsApology ==
  [][\A i \in 1..Len(calls) :
       Fails(i) =>
         IF Concat(calls[i].delivered) = <<>>
         THEN /\ calls[i].slot = Len(messages)
              /\ messages' = [messages EXCEPT ![Len(messages)].content = APOLOGY]
         ELSE /\ SlotContent(i) = Concat(calls[i].delivered)
              /\ messages' = Append(messages, [role |-> "assistant", content |-> APOLOGY])]_vars

C29_Witness ==
  /\ Len(calls) = 1
  /\ calls[1].outcome = "error"
  /\ Concat(calls[1].delivered) # <<>>
  /\ Len(messages) = calls[1].slot + 1
  /\ messages[Len(messages)].content = APOLOGY
  /\ SlotContent(1) = Concat(calls[1].delivered)

\* C30: when an attempt fails in the middle of the stream after onStart
\* delivered a correlation id, and the error text names no id, the
\* controller in Error still holds the id onStart delivered.
C30_OnStartIdKept ==
  \A i \in 1..Len(calls) :
    ( /\ i = Len(calls)
      /\ calls[i].pc = "rejected"
      /\ Len(calls[i].starts) = 1
      /\ Truthy(calls[i].starts[1])
      /\ ~HasIdKey(ErrorText(failure)) ) =>
        /\ requestId = calls[i].starts[1]
        /\ ~isLoading

C30_Witness ==
  /\ Len(calls) = 2
  /\ calls[1].starts = <<Undefined>>
  /\ calls[2].pc = "rejected"
  /\ calls[2].starts = << <<"r", "-", "1">> >>
  /\ calls[2].delivered # <<>>
  /\ ~HasIdKey(ErrorText(failure))
  /\ requestId = <<"r", "-", "1">>

\* C31: a stream that ends without the [DONE] sentinel is a clean end: the
\* Transport resolves, the fragments delivered stay as the content of the
\* assistant entry, and the controller is idle with no error.
C31_EofIsClean ==
  /\ [](\A i \in 1..Len(calls) :
          calls[i].outcome = "eof" =>
            /\ calls[i].pc = "resolved"
            /\ IndexOf(calls[i].wire, DATA_PREFIX \o DONE_SENTINEL) = 0
            /\ SlotContent(i) = Concat(calls[i].delivered)
            /\ i = Len(calls) =>
                 /\ ~isLoading
                 /\ errorMessage = Undefined
                 /\ ~unhandled
                 /\ failure = NoFailure)
  /\ [][\A i \in 1..Len(calls) :
          (calls[i].pc = "read" /\ ReadDone(i)) =>
            /\ calls'[i].pc = "resolved"
            /\ calls'[i].outcome = "eof"
            /\ messages' = messages
            /\ calls'[i].delivered = calls[i].delivered]_vars

C31_Witness ==
  \E i \in 1..Len(calls) :
    /\ i = Len(calls)
    /\ calls[i].outcome = "eof"
    /\ Concat(calls[i].delivered) # <<>>
    /\ SlotContent(i) = Concat(calls[i].delivered)
    /\ ~isLoading
    /\ errorMessage = Undefined

\* C32: the controller leaves Sending only in the step in which its
\* Transport invocation resolves or rejects: as long as an invocation is in
\* flight the busy flag is true, and while it is true every send and every
\* retry is rejected and no step starts an invocation.
C32_BusyUntilEnd ==
  /\ [](isLoading <=> InFlight # {})
  /\ [][(isLoading /\ ~isLoading') =>
          \E i \in InFlight : calls'[i].pc \in {"resolved", "rejected"}]_vars
  /\ [][isLoading =>
          /\ Len(calls') = Len(calls)
          /\ handleSubmit => UNCHANGED vars
          /\ retry => UNCHANGED vars]_vars

C32_Witness ==
  /\ isLoading
  /\ Len(calls) = 1
  /\ calls[1].pc = "read"
  /\ reads = MaxChunks
  /\ Truthy(Trim(input))
  /\ Truthy(lastUserMessage)

\* C33: when every Transport invocation eventually resolves or rejects, the
\* controller that is Sending eventually has the busy flag false again, and
\* a send of a non-blank text handled in that state is accepted.
C33_EventuallyIdle ==
  /\ isLoading ~> ~isLoading
  /\ [][(handleSubmit /\ ~isLoading /\ Truthy(Trim(input))) => Starts("send")]_vars

C33_Witness ==
  /\ Len(calls) = 2
  /\ calls[1].pc = "rejected"
  /\ calls[2].kind = "send"
  /\ calls[2].pc = "resolved"
  /\ ~isLoading

\* C34: after a request refused with a response whose header carries the
\* correlation id X, the controller retains exactly X, also when X holds
\* characters other than letters, digits, '_' and '-'.
C34_WholeId ==
  \A resp \in DottedRefusals :
    ( /\ Len(calls) >= 1
      /\ calls[Len(calls)].pc = "rejected"
      /\ failure = StartError(resp) ) => requestId = resp.rid

\* C35: after an attempt that ended cleanly without content, the last entry
\* of the transcript is the attempt's assistant entry, still empty; the
\* controller is idle with no error, shows no apology and offers no retry.
C35_EmptyCleanEnd ==
  \A i \in 1..Len(calls) :
    ( /\ i = Len(calls)
      /\ calls[i].pc = "resolved"
      /\ Concat(calls[i].delivered) = <<>> ) =>
        /\ calls[i].slot = Len(messages)
        /\ messages[Len(messages)] = [role |-> "assistant", content |-> <<>>]
        /\ ~isLoading
        /\ errorMessage = Undefined
        /\ ~RetryOffered(view)
        /\ \A k \in calls[i].slot..Len(messages) : messages[k].content # APOLOGY

C35_Witness ==
  /\ Len(calls) = 2
  /\ calls[1].outcome = "error"
  /\ calls[2].outcome \in {"eof", "sentinel"}
  /\ calls[2].wire # <<>>
  /\ Concat(calls[2].delivered) = <<>>
  /\ messages[Len(messages)].content = <<>>
  /\ ~isLoading

\* C36: after the failure of the latest attempt, whatever value it was
\* rejected with, lastError is a non-empty string and the retry is offered.
C36_ErrorObservable ==
  (Len(calls) >= 1 /\ calls[Len(calls)].pc = "rejected") =>
    /\ errorMessage # Undefined
    /\ errorMessage # <<>>
    /\ RetryOffered(view)

(* ------------------- the non-streaming helper ------------------------- *)
API_FAILED == <<"API request failed">>

QUOTE == "\""

\* The value of the detail member of a parsed body.
NoDetail == [type |-> "absent"]

StringDetail(chars) == [type |-> "string", value |-> chars]

NumberDetail(n) == [type |-> "number", value |-> n]

NullDetail == [type |-> "null"]

\* {"detail":<value>} as the service writes it.
DetailBody(valueText) ==
  <<"{", QUOTE, "d", "e", "t", "a", "i", "l", QUOTE, ":">> \o valueText \o <<"}">>

\* Bodies of error responses, each with what JSON.parse makes of its text:
\* not JSON, an object (with its detail member), an array, a number, null.
ApiBodies ==
  { [text |-> <<>>, json |-> [kind |-> "invalid"]],
    [text |-> <<"S", "e", "r", "v", "e", "r", " ", "E", "r", "r", "o", "r">>,
     json |-> [kind |-> "invalid"]],
    [text |-> DetailBody(<<QUOTE, " ", "b", "a", "d", " ", QUOTE>>),
     json |-> [kind |-> "object", detail |-> StringDetail(<<" ", "b", "a", "d", " ">>)]],
    [text |-> DetailBody(<<QUOTE, " ", QUOTE>>),
     json |-> [kind |-> "object", detail |-> StringDetail(<<" ">>)]],
    [text |-> DetailBody(<<"4", "2">>),
     json |-> [kind |-> "object", detail |-> NumberDetail(42)]],
    [text |-> DetailBody(<<"n", "u", "l", "l">>),
     json |-> [kind |-> "object", detail |-> NullDetail]],
    [text |-> <<"{", QUOTE, "x", QUOTE, ":", "1", "}">>,
     json |-> [kind |-> "object", detail |-> NoDetail]],
    [text |-> <<"[", "1", "]">>, json |-> [kind |-> "array"]],
    [text |-> <<"7">>, json |-> [kind |-> "number"]],
    [text |-> <<"n", "u", "l", "l">>, json |-> [kind |-> "null"]] }

\* JSON.parse on the bodies above; kind "invalid" stands for the exception.
JsonParse(text) == (CHOOSE b \in ApiBodies : b.text = text).json

\* JSON.stringify of a detail value.
JsonStringify(detail) ==
  CASE detail.type = "string" -> <<QUOTE>> \o detail.value \o <<QUOTE>>
    [] detail.type = "number" -> Decimal(detail.value)
    [] detail.type = "null" -> <<"n", "u", "l", "l">>

\* Responses a non-streaming request can get.
ApiResponses ==
  { [ok |-> FALSE, status |-> st, text |-> b.text, rid |-> r] :
      st \in {400, 500}, b \in ApiBodies, r \in HeaderIds }
  \cup { [ok |-> TRUE, status |-> 200, text |-> <<"{", "}">>, rid |-> Undefined] }

\* Variant: the detail string is used as it stands.
ResponseMessage_Untrimmed(errorText) ==
  IF ~Truthy(errorText) THEN API_FAILED
  ELSE LET parsed == JsonParse(errorText)
       IN  IF parsed.kind \in {"object", "array"}
           THEN LET detail == IF parsed.kind = "object" THEN parsed.detail ELSE NoDetail
                IN  IF detail.type = "string" /\ Truthy(Trim(detail.value))
                    THEN detail.value
                    ELSE IF detail.type # "absent" THEN JsonStringify(detail)
                    ELSE errorText
           ELSE errorText

\* The message handleResponse derives from the text of the body.
ResponseMessage(errorText) ==
  IF ~Truthy(errorText) THEN API_FAILED
  ELSE LET parsed == JsonParse(errorText)
       IN  IF parsed.kind \in {"object", "array"}
           THEN LET detail == IF parsed.kind = "object" THEN parsed.detail ELSE NoDetail
                IN  IF detail.type = "string" /\ Truthy(Trim(detail.value))
                    THEN Trim(detail.value)
                    ELSE IF detail.type # "absent" THEN JsonStringify(detail)
                    ELSE errorText
           ELSE errorText

\* The Error handleResponse throws for a response that is not ok.
ResponseError(resp) ==
  LET rid == OrElse(resp.rid, Undefined)
      message == ResponseMessage(resp.text)
      statusPart == STATUS_KEY \o Decimal(resp.status)
      composed == IF Truthy(rid)
                  THEN message \o <<" ", "(">> \o statusPart \o <<",", " ">>
                         \o REQUEST_ID_KEY \o rid \o <<")">>
                  ELSE message \o <<" ", "(">> \o statusPart \o <<")">>
  IN  ErrorOf(composed)

\* A helper such as searchProperties issues its request.
apiRequest ==
  /\ Len(calls) < MaxCalls
  /\ calls' = Append(calls, NewCall("api", <<>>, Undefined, <<>>, 0))
  /\ UNCHANGED <<messages, input, isLoading, sessionId, requestId, lastUserMessage,
                 errorMessage, view, hasCrypto, uuids, reads, unhandled, failure>>

\* fetch() resolves and handleResponse(response) returns or throws; the
\* body read is kept in wire, the thrown Error in failure.
handleResponse(i, resp) ==
  /\ calls[i].kind = "api"
  /\ calls[i].pc = "fetch"
  /\ IF resp.ok
     THEN /\ calls' = [calls EXCEPT ![i].pc = "resolved", ![i].outcome = "json"]
          /\ UNCHANGED failure
     ELSE /\ calls' = [calls EXCEPT ![i].pc = "rejected", ![i].outcome = "error",
                                    ![i].wire = resp.text]
          /\ failure' = ResponseError(resp)
  /\ UNCHANGED <<messages, input, isLoading, sessionId, requestId, lastUserMessage,
                 errorMessage, view, hasCrypto, uuids, reads, unhandled>>

NextApi ==
  \/ apiRequest
  \/ \E i \in 1..Len(calls), resp \in ApiResponses : handleResponse(i, resp)

SpecApi == Init /\ [][NextApi]_vars

\* The detail member of a body, NoDetail when the body is no JSON object or
\* has none.
DetailOf(text) ==
  IF JsonParse(text).kind = "object" THEN JsonParse(text).detail ELSE NoDetail

\* C37: for a response that is not a success the helper throws an Error
\* whose message is "API request failed" for an empty body, the trimmed
\* detail when the body is a JSON object with a non-blank string detail, the
\* JSON encoding of detail when it is present but no such string, the body
\* text otherwise; followed by " (status=<n>)", or by
\* " (status=<n>, request_id=<id>)" when the response carries an id.
C37_HelperError ==
  [][\A i \in 1..Len(calls), resp \in ApiResponses :
       (calls[i].pc = "fetch" /\ calls'[i].pc # "fetch"
          /\ ~resp.ok /\ handleResponse(i, resp)) =>
         LET d == DetailOf(resp.text)
             base == IF resp.text = <<>> THEN API_FAILED
                     ELSE IF d.type = "string" /\ Trim(d.value) # <<>> THEN Trim(d.value)
                     ELSE IF d.type # "absent" THEN JsonStringify(d)
                     ELSE resp.text
             clause == IF resp.rid = Undefined
                       THEN <<>>
                       ELSE <<",", " ">> \o REQUEST_ID_KEY \o resp.rid
         IN  /\ failure'.isError
             /\ failure'.message =
                  base \o <<" ", "(">> \o STATUS_KEY \o Decimal(resp.status)
                    \o clause \o <<")">>
             /\ calls'[i].pc = "rejected"]_vars

C37_Witness ==
  /\ Len(calls) = 2
  /\ calls[1].pc = "rejected"
  /\ calls[1].wire = DetailBody(<<"4", "2">>)
  /\ calls[2].pc = "rejected"
  /\ calls[2].wire = DetailBody(<<QUOTE, " ", "b", "a", "d", " ", QUOTE>>)
  /\ failure.message = <<"b", "a", "d", " ", "(", "s", "t", "a", "t", "u", "s", "=",
                         "4", "0", "0", ",", " ", "r", "e", "q", "u", "e", "s", "t",
                         "_", "i", "d", "=", "r", "-", "1", ")">>

====
